---- MODULE Spec2Model ----
(***************************************************************************)
(* POST /api/teacher/assignments/[id]/submissions/[submissionId]/grade     *)
(* (route.ts): a teacher grades one submission embedded in an assignment   *)
(* document; the student is notified.                                      *)
(*                                                                         *)
(* Every `await` of the handler is a suspension point, so one call is a    *)
(* sequence of steps and several calls interleave at those points:         *)
(*   Begin           lines 18-70   cookie, verify, role, body              *)
(*   Connect         line  73      connectToDatabase()                     *)
(*   FindAssignment  lines 77-113  Assignment.findById, checks, mutation   *)
(*   Save            line  115     assignment.save()                       *)
(*   FindTeacher     lines 122-124 Teacher.findById                        *)
(*   CreateNotification  lines 128-146 Notification.create, response       *)
(* Every awaited operation may reject; the rejection lands in the catch    *)
(* of lines 148-154.                                                       *)
(***************************************************************************)
EXTENDS Integers, Sequences, FiniteSets, TLC

\* ------------------------------------------------------------------ bounds
\* Calls issued in one run.
MaxCalls == 2
\* Calls issued in one run in which a graded submission is graded again by
\* two calls at once.
MaxRegradeCalls == 3

\* The handler keeps nothing in the process: calls meet in the store only.
\* Two of them may be between their first step and their response at the
\* same time, each in its slot.
Slots == {1, 2}

\* --------------------------------------------------------------- JS values
Undefined == <<"undefined">>
Num(n) == <<"number", n>>
Str(s) == <<"string", s>>
DateAt(t) == <<"date", t>>

\* JavaScript truthiness, as `!token` (line 29) and `!feedback` (line 64) use it.
Truthy(v) ==
  CASE v[1] = "undefined" -> FALSE
    [] v[1] = "number" -> v[2] # 0
    [] v[1] = "string" -> v[2] # ""
    [] OTHER -> TRUE

\* ------------------------------------------------------------- environment
\* jsonwebtoken.verify(token, JWT_SECRET): the tokens signed with the secret
\* and the payload each decodes to; any other string makes verify throw.
SignedTokens ==
  [t \in {"jwt-t1", "jwt-t2", "jwt-u3"} |->
     CASE t = "jwt-t1" -> [userId |-> "t1", role |-> "teacher"]
       [] t = "jwt-t2" -> [userId |-> "t2", role |-> "teacher"]
       [] t = "jwt-u3" -> [userId |-> "u3", role |-> "student"]]

VerifyThrows(token) == token[2] \notin DOMAIN SignedTokens
Verify(token) == SignedTokens[token[2]]

\* The Teacher collection: t1 has a profile, t2 has none (line 124 tests it).
TeacherDocs ==
  [t \in {"t1"} |-> [firstName |-> "Ada", lastName |-> "Byron"]]

\* Values of the auth-token cookie: absent, empty, unsigned, signed.
CookieValues ==
  {Undefined, Str(""), Str("garbage"), Str("jwt-t1"), Str("jwt-t2"), Str("jwt-u3")}
\* params.id and params.submissionId
AssignmentParams == {"a1", "a2", "a9"}
SubmissionParams == {"s1", "s2", "s3"}
\* The request body: text that is not JSON, or an object with (or without)
\* grade and feedback.
Malformed == [json |-> FALSE, grade |-> Undefined, feedback |-> Undefined]
Bodies ==
  {Malformed} \cup
  [json : {TRUE}, grade : {Undefined, Num(0), Num(1)},
   feedback : {Undefined, Str(""), Str("good"), Str("redo")}]
Requests ==
  [token : CookieValues, id : AssignmentParams,
   submissionId : SubmissionParams, body : Bodies]
\* The requests of signed-in users that carry a grade and a feedback.
RaceRequests ==
  LET users == {Str("jwt-t1"), Str("jwt-t2"), Str("jwt-u3")}
      graded == [json : {TRUE}, grade : {Num(0), Num(1)},
                 feedback : {Str("good"), Str("redo")}]
  IN [token : users, id : {"a1"}, submissionId : SubmissionParams, body : graded]
     \cup [token : users, id : {"a2"}, submissionId : {"s3"}, body : graded]

\* ---------------------------------------------------------------- responses
Unauthorized ==
  [status |-> 401, success |-> FALSE, error |-> "Unauthorized"]
InvalidToken ==
  [status |-> 401, success |-> FALSE, error |-> "Invalid token"]
AccessDenied ==
  [status |-> 403, success |-> FALSE,
   error |-> "Access denied - only teachers can grade assignments"]
FieldsRequired ==
  [status |-> 400, success |-> FALSE, error |-> "Grade and feedback are required"]
AssignmentNotFound ==
  [status |-> 404, success |-> FALSE, error |-> "Assignment not found"]
NotAuthorized ==
  [status |-> 403, success |-> FALSE,
   error |-> "Not authorized to grade this assignment"]
SubmissionNotFound ==
  [status |-> 404, success |-> FALSE, error |-> "Submission not found"]
\* The catch answering 400.
FailedToGrade_BadRequest ==
  [status |-> 400, success |-> FALSE, error |-> "Failed to grade submission"]
FailedToGrade ==
  [status |-> 500, success |-> FALSE, error |-> "Failed to grade submission"]
Graded(submission) ==
  [status |-> 200, success |-> TRUE, error |-> "",
   message |-> "Submission graded successfully", submission |-> submission]

\* -------------------------------------------------------------------- state
VARIABLES
  assignments,    \* the Assignment collection: _id -> document
  notifications,  \* the Notification collection, in creation order
  calls,          \* per slot: the call running there and its locals
  nCalls,         \* calls issued so far
  now,            \* the clock `new Date()` reads
  saves,          \* history: what each save() that succeeded carried
  okCalls,        \* history: the calls answered 200, in order
  prev            \* history: the last call of a caller that remembers it

vars == <<assignments, notifications, calls, nCalls, now, saves, okCalls, prev>>

NewSubmission(id, student) ==
  [_id |-> id, studentId |-> student, grade |-> Undefined,
   feedback |-> Undefined, status |-> "submitted", gradedAt |-> Undefined]

InitialAssignments ==
  [a \in {"a1", "a2"} |->
     IF a = "a1"
     THEN [_id |-> "a1", teacherId |-> "t1", title |-> "Essay",
           submissions |-> <<NewSubmission("s1", "u3"), NewSubmission("s2", "u4")>>]
     ELSE [_id |-> "a2", teacherId |-> "t2", title |-> "Quiz",
           submissions |-> <<NewSubmission("s3", "u3")>>]]

NoRequest ==
  [token |-> Undefined, id |-> "", submissionId |-> "", body |-> Malformed]
NoDecoded == [userId |-> "", role |-> ""]
NoDocument == [_id |-> "", teacherId |-> "", title |-> "", submissions |-> <<>>]
NoResponse == [status |-> 0, success |-> FALSE, error |-> ""]

Idle ==
  [pc |-> "idle", req |-> NoRequest, decoded |-> NoDecoded,
   assignment |-> NoDocument, idx |-> 0, modified |-> {},
   resp |-> NoResponse, threw |-> "", saved |-> FALSE, notified |-> 0]

NoPrev == [status |-> 0, req |-> NoRequest, stored |-> <<>>, notified |-> 0]

Init ==
  /\ assignments = InitialAssignments
  /\ notifications = <<>>
  /\ calls = [c \in Slots |-> Idle]
  /\ nCalls = 0
  /\ now = 1
  /\ saves = {}
  /\ okCalls = <<>>
  /\ prev = NoPrev

\* ------------------------------------------------------------ the handler
Return(resp) == [kind |-> "return", resp |-> resp, threw |-> ""]
Thrown(op) == [kind |-> "throw", resp |-> NoResponse, threw |-> op]
Continue == [kind |-> "continue", resp |-> NoResponse, threw |-> ""]

\* Line 64: grade === undefined || !feedback
MissingFields(grade, feedback) == grade = Undefined \/ ~Truthy(feedback)

\* PreChecks with the body validated before the role is checked.
PreChecks_BodyBeforeRole(req) ==
  IF ~Truthy(req.token) THEN Return(Unauthorized)
  ELSE IF VerifyThrows(req.token) THEN Return(InvalidToken)
  ELSE IF ~req.body.json THEN Thrown("request.json")
  ELSE IF MissingFields(req.body.grade, req.body.feedback)
       THEN Return(FieldsRequired)
  ELSE IF Verify(req.token).role # "teacher" THEN Return(AccessDenied)
  ELSE Continue

\* Lines 26-70: the checks made before the database is touched, in order.
PreChecks(req) ==
  IF ~Truthy(req.token) THEN Return(Unauthorized)
  ELSE IF VerifyThrows(req.token) THEN Return(InvalidToken)
  ELSE IF Verify(req.token).role # "teacher" THEN Return(AccessDenied)
  ELSE IF ~req.body.json THEN Thrown("request.json")
  ELSE IF MissingFields(req.body.grade, req.body.feedback)
       THEN Return(FieldsRequired)
  ELSE Continue

Respond(call, resp) == [call EXCEPT !.pc = "done", !.resp = resp]

\* No catch: the exception leaves the handler without a response.
Catch_Escapes(call) == [call EXCEPT !.pc = "done"]

\* Lines 18 and 148-154: whatever is thrown inside the try is caught and
\* ends the call with 500.
Catch(call) == Respond(call, FailedToGrade)

\* An awaited operation of the call rejects (or request.json() throws).
Throw(call, op) == Catch([call EXCEPT !.threw = op])

\* History of the 200 responses.
Answered(call) ==
  Append(okCalls, [teacherId |-> call.decoded.userId, id |-> call.req.id,
                   submissionId |-> call.req.submissionId])

\* MongooseDocumentArray.id(id): the position of the subdocument whose _id
\* is id, 0 for null (line 99).
RECURSIVE DocumentArrayId(_, _, _)
DocumentArrayId(submissions, id, i) ==
  IF i > Len(submissions) THEN 0
  ELSE IF submissions[i]._id = id THEN i
  ELSE DocumentArrayId(submissions, id, i + 1)

\* No ownership check.
NotOwner_Never(assignment, teacherId) == FALSE

\* Line 90: assignment.teacherId.toString() !== teacherId
NotOwner(assignment, teacherId) == assignment.teacherId # teacherId

\* The grading that forgets the timestamp.
GradeFields_NoDate(grade, feedback, date) ==
  [grade |-> grade, feedback |-> feedback, status |-> "graded"]

\* Lines 110-113 on a Mongoose subdocument: each assignment sets the field
\* in memory, and marks its path modified only when the value differs from
\* the loaded one.
GradeFields(grade, feedback, date) ==
  [grade |-> grade, feedback |-> feedback, status |-> "graded", gradedAt |-> date]

SetFields(submission, values) ==
  [f \in DOMAIN submission |->
     IF f \in DOMAIN values THEN values[f] ELSE submission[f]]

ModifiedPaths(submission, values) ==
  {f \in DOMAIN values : submission[f] # values[f]}

\* A save() that refuses to touch a submission stored as graded.
SaveDocument_OnlyUngraded(store, doc, idx, modified) ==
  IF store[doc._id].submissions[idx].status = "graded" THEN store
  ELSE [store EXCEPT ![doc._id].submissions[idx] =
          [f \in DOMAIN @ |-> IF f \in modified THEN doc.submissions[idx][f] ELSE @[f]]]

\* A save() that writes the whole document as loaded and changed in memory.
SaveDocument_Replace(store, doc, idx, modified) ==
  [store EXCEPT ![doc._id] = doc]

\* Line 115. Assignment is a Mongoose model (line 5; submissions.id() of
\* line 99 is a method of its document arrays), and save() of a document
\* that was loaded sends one update of the stored document: a $set of the
\* paths marked modified, here submissions.<idx - 1>.<path>. Every other
\* path stays as stored, whatever the document held when it was loaded.
SaveDocument(store, doc, idx, modified) ==
  [store EXCEPT ![doc._id].submissions[idx] =
     [f \in DOMAIN @ |-> IF f \in modified THEN doc.submissions[idx][f] ELSE @[f]]]

\* The notification addressed to the teacher.
GradedNotification_ToSender(studentId, teacherId, teacher, assignment) ==
  [recipientId |-> teacherId, recipientModel |-> "Student",
   senderId |-> teacherId, senderModel |-> "Teacher",
   type |-> "assignment_graded",
   message |-> <<teacher.firstName, " ", teacher.lastName,
                 " has graded your assignment \"", assignment.title, "\"">>,
   relatedDocId |-> assignment._id, read |-> FALSE]

\* Lines 128-137
GradedNotification(studentId, teacherId, teacher, assignment) ==
  [recipientId |-> studentId, recipientModel |-> "Student",
   senderId |-> teacherId, senderModel |-> "Teacher",
   type |-> "assignment_graded",
   message |-> <<teacher.firstName, " ", teacher.lastName,
                 " has graded your assignment \"", assignment.title, "\"">>,
   relatedDocId |-> assignment._id, read |-> FALSE]

\* The submission a request addresses as store holds it, <<>> when there is
\* none.
StoredIn(store, id, submissionId) ==
  IF id \notin DOMAIN store THEN <<>>
  ELSE LET i == DocumentArrayId(store[id].submissions, submissionId, 1)
       IN IF i = 0 THEN <<>> ELSE store[id].submissions[i]

Stored(id, submissionId) == StoredIn(assignments, id, submissionId)

\* ----------------------------------------------------------------- actions
\* A response is out and not yet delivered. The state in which a call is
\* "done" only shows its response: delivering it is not a step of the
\* handler, so no step of any call is taken before it.
Responded == \E d \in Slots : calls[d].pc = "done"

\* Lines 18-70: a request arrives and is checked up to the body validation.
Begin(c, requests, limit) ==
  /\ ~Responded
  /\ calls[c].pc = "idle"
  /\ nCalls < limit
  /\ nCalls' = nCalls + 1
  /\ \E req \in requests :
       LET o == PreChecks(req)
           call == [Idle EXCEPT !.req = req]
       IN calls' = [calls EXCEPT ![c] =
            CASE o.kind = "return" -> Respond(call, o.resp)
              [] o.kind = "throw" -> Throw(call, o.threw)
              [] OTHER -> [call EXCEPT !.pc = "connect",
                                       !.decoded = Verify(req.token)]]
  /\ UNCHANGED <<assignments, notifications, now, saves, okCalls, prev>>

\* Line 73: await connectToDatabase()
Connect(c) ==
  /\ ~Responded
  /\ calls[c].pc = "connect"
  /\ \E ok \in BOOLEAN :
       calls' = [calls EXCEPT ![c] =
         IF ok THEN [@ EXCEPT !.pc = "find"] ELSE Throw(@, "connectToDatabase")]
  /\ UNCHANGED <<assignments, notifications, nCalls, now, saves, okCalls, prev>>

\* Lines 77-113: load the assignment, check it, its owner and the
\* submission, then grade the submission in memory.
FindAssignment(c) ==
  /\ ~Responded
  /\ calls[c].pc = "find"
  /\ \E ok \in BOOLEAN :
       LET call == calls[c]
           found == call.req.id \in DOMAIN assignments
           doc == assignments[call.req.id]
           i == DocumentArrayId(doc.submissions, call.req.submissionId, 1)
           values == GradeFields(call.req.body.grade, call.req.body.feedback,
                                 DateAt(now))
       IN IF ~ok
          THEN /\ calls' = [calls EXCEPT ![c] = Throw(@, "Assignment.findById")]
               /\ now' = now
          ELSE IF ~found
          THEN /\ calls' = [calls EXCEPT ![c] = Respond(@, AssignmentNotFound)]
               /\ now' = now
          ELSE IF NotOwner(doc, call.decoded.userId)
          THEN /\ calls' = [calls EXCEPT ![c] = Respond(@, NotAuthorized)]
               /\ now' = now
          ELSE IF i = 0
          THEN /\ calls' = [calls EXCEPT ![c] = Respond(@, SubmissionNotFound)]
               /\ now' = now
          ELSE /\ calls' = [calls EXCEPT ![c] =
                    [@ EXCEPT !.pc = "save",
                              !.assignment =
                                 [doc EXCEPT !.submissions[i] = SetFields(@, values)],
                              !.idx = i,
                              !.modified = ModifiedPaths(doc.submissions[i], values)]]
               /\ now' = now + 1
  /\ UNCHANGED <<assignments, notifications, nCalls, saves, okCalls, prev>>

\* Line 115: await assignment.save()
Save(c) ==
  /\ ~Responded
  /\ calls[c].pc = "save"
  /\ \E ok \in BOOLEAN :
       LET call == calls[c]
       IN IF ok
          THEN /\ assignments' = SaveDocument(assignments, call.assignment,
                                              call.idx, call.modified)
               /\ calls' = [calls EXCEPT ![c] =
                    [@ EXCEPT !.pc = "teacher", !.saved = TRUE]]
               /\ saves' = saves \cup
                    {[id |-> call.req.id, submissionId |-> call.req.submissionId,
                      grade |-> call.req.body.grade,
                      feedback |-> call.req.body.feedback]}
          ELSE /\ calls' = [calls EXCEPT ![c] = Throw(@, "assignment.save")]
               /\ UNCHANGED <<assignments, saves>>
  /\ UNCHANGED <<notifications, nCalls, now, okCalls, prev>>

\* Lines 119-124 and, with no teacher document, 142-146.
FindTeacher(c) ==
  /\ ~Responded
  /\ calls[c].pc = "teacher"
  /\ \E ok \in BOOLEAN :
       LET call == calls[c]
       IN IF ~ok
          THEN /\ calls' = [calls EXCEPT ![c] = Throw(@, "Teacher.findById")]
               /\ okCalls' = okCalls
          ELSE IF call.decoded.userId \in DOMAIN TeacherDocs
          THEN /\ calls' = [calls EXCEPT ![c] = [@ EXCEPT !.pc = "notify"]]
               /\ okCalls' = okCalls
          ELSE /\ calls' = [calls EXCEPT ![c] =
                    Respond(@, Graded(call.assignment.submissions[call.idx]))]
               /\ okCalls' = Answered(call)
  /\ UNCHANGED <<assignments, notifications, nCalls, now, saves, prev>>

\* Lines 125-146: await Notification.create(...), then the 200 response.
CreateNotification(c) ==
  /\ ~Responded
  /\ calls[c].pc = "notify"
  /\ \E ok \in BOOLEAN :
       LET call == calls[c]
           submission == call.assignment.submissions[call.idx]
       IN IF ok
          THEN /\ notifications' = Append(notifications,
                    GradedNotification(submission.studentId, call.decoded.userId,
                                       TeacherDocs[call.decoded.userId],
                                       call.assignment))
               /\ calls' = [calls EXCEPT ![c] =
                    Respond([@ EXCEPT !.notified = @ + 1], Graded(submission))]
               /\ okCalls' = Answered(call)
          ELSE /\ calls' = [calls EXCEPT ![c] = Throw(@, "Notification.create")]
               /\ UNCHANGED <<notifications, okCalls>>
  /\ UNCHANGED <<assignments, nCalls, now, saves, prev>>

\* The response is delivered and the slot is free for the next call.
Retire(c) ==
  /\ calls[c].pc = "done"
  /\ calls' = [calls EXCEPT ![c] = Idle]
  /\ UNCHANGED <<assignments, notifications, nCalls, now, saves, okCalls, prev>>

\* The same, seen by a caller that remembers its last call when that call
\* succeeded: the request, and the stored submission it addressed.
RetireRemembered(c) ==
  /\ calls[c].pc = "done"
  /\ calls' = [calls EXCEPT ![c] = Idle]
  /\ prev' = IF calls[c].resp.status = 200
             THEN [status |-> 200, req |-> calls[c].req,
                   stored |-> Stored(calls[c].req.id, calls[c].req.submissionId),
                   notified |-> calls[c].notified]
             ELSE NoPrev
  /\ UNCHANGED <<assignments, notifications, nCalls, now, saves, okCalls>>

\* Concurrent callers: requests that pass or fail the role, owner and
\* submission checks, issued while other calls are under way.
Next ==
  \E c \in Slots :
    \/ Begin(c, RaceRequests, MaxCalls)
    \/ Connect(c)
    \/ FindAssignment(c)
    \/ Save(c)
    \/ FindTeacher(c)
    \/ CreateNotification(c)
    \/ Retire(c)

Spec == Init /\ [][Next]_vars

\* The same callers with one more call, so that two calls can meet on a
\* submission that a call before them graded.
NextRegrade ==
  \E c \in Slots :
    \/ Begin(c, RaceRequests, MaxRegradeCalls)
    \/ Connect(c)
    \/ FindAssignment(c)
    \/ Save(c)
    \/ FindTeacher(c)
    \/ CreateNotification(c)
    \/ Retire(c)

SpecRegrade == Init /\ [][NextRegrade]_vars

\* One caller issuing any request, each after the response to the one
\* before.
BeginAlone(c, requests) ==
  /\ \A d \in Slots : calls[d].pc = "idle"
  /\ Begin(c, requests, MaxCalls)

NextSeq ==
  \E c \in Slots :
    \/ BeginAlone(c, Requests)
    \/ Connect(c)
    \/ FindAssignment(c)
    \/ Save(c)
    \/ FindTeacher(c)
    \/ CreateNotification(c)
    \/ RetireRemembered(c)

SpecSeq == Init /\ [][NextSeq]_vars

\* ------------------------------------------------------------------ claims
Done(c) == calls[c].pc = "done"

\* The seven checks as the contract lists them, read off the request and
\* the store alone.
TokenVerifies(token) ==
  token[1] = "string" /\ token[2] \in {"jwt-t1", "jwt-t2", "jwt-u3"}
Subject(token) ==
  CASE token[2] = "jwt-t1" -> "t1" [] token[2] = "jwt-t2" -> "t2" [] OTHER -> "u3"
IsTeacher(token) == TokenVerifies(token) /\ token[2] \in {"jwt-t1", "jwt-t2"}
GradeAbsentOrFeedbackEmpty(body) ==
  body.grade[1] = "undefined" \/ body.feedback \in {Undefined, Str("")}
InStore(id) == id \in DOMAIN assignments
Owns(token, id) == assignments[id].teacherId = Subject(token)
HasSubmission(id, submissionId) ==
  \E i \in 1..Len(assignments[id].submissions) :
    assignments[id].submissions[i]._id = submissionId

CookieAbsent(token) == token = Undefined
CookieAbsentOrEmpty(token) == token \in {Undefined, Str("")}

\* The number of the first check a request fails, 0 when it passes all of
\* them. Check 1 is "cookie absent", or with emptyToo "absent or empty".
FirstFailing(req, emptyToo) ==
  CASE (IF emptyToo THEN CookieAbsentOrEmpty(req.token)
        ELSE CookieAbsent(req.token)) -> 1
    [] ~TokenVerifies(req.token) -> 2
    [] ~IsTeacher(req.token) -> 3
    [] GradeAbsentOrFeedbackEmpty(req.body) -> 4
    [] ~InStore(req.id) -> 5
    [] ~Owns(req.token, req.id) -> 6
    [] ~HasSubmission(req.id, req.submissionId) -> 7
    [] OTHER -> 0

ResponseOfCheck(k) ==
  CASE k = 1 -> Unauthorized
    [] k = 2 -> InvalidToken
    [] k = 3 -> AccessDenied
    [] k = 4 -> FieldsRequired
    [] k = 5 -> AssignmentNotFound
    [] k = 6 -> NotAuthorized
    [] k = 7 -> SubmissionNotFound

\* A call that has ended is answered by its lowest-numbered failing check,
\* and with 200 when it fails none. Checks 1-3 come before anything can
\* throw; check 4 needs a body that parses; the others need that no awaited
\* operation rejected.
DecidedByFirstFailing(emptyToo) ==
  \A c \in Slots :
    Done(c) =>
      LET call == calls[c]
          k == FirstFailing(call.req, emptyToo)
      IN /\ k \in 1..3 => call.resp = ResponseOfCheck(k)
         /\ (k = 4 /\ call.req.body.json) => call.resp = ResponseOfCheck(4)
         /\ (k \in 5..7 /\ call.threw = "") => call.resp = ResponseOfCheck(k)
         /\ (k = 0 /\ call.threw = "") => call.resp.status = 200

C3_RefusedCallsWriteNothing ==
  \A c \in Slots :
    (Done(c) /\ calls[c].resp.status \in {400, 401, 403, 404}) =>
      ~calls[c].saved /\ calls[c].notified = 0

\* A call is refused (404, no such submission) after another call graded a
\* submission and notified the student: the store holds something to leave
\* alone.
C3_Witness ==
  /\ Len(notifications) > 0
  /\ \E c \in Slots :
       /\ Done(c)
       /\ calls[c].resp = SubmissionNotFound
       /\ assignments[calls[c].req.id].submissions[1].status = "graded"

\* Call c repeats the request of the call before it, which was answered
\* 200, and no awaited operation of c rejected.
Retry(c) ==
  /\ Done(c)
  /\ prev.status = 200
  /\ calls[c].req = prev.req
  /\ calls[c].threw = ""

\* Call c grades, with another grade, the submission that the call before
\* it graded, and both were answered 200.
Regrade(c) ==
  /\ Done(c)
  /\ prev.status = 200
  /\ calls[c].req.id = prev.req.id
  /\ calls[c].req.submissionId = prev.req.submissionId
  /\ calls[c].req.body.grade # prev.req.body.grade
  /\ calls[c].resp.status = 200

HasProfile(token) == Subject(token) \in DOMAIN TeacherDocs

\* The retry is answered 200 and leaves the stored grade, feedback and
\* status as the first call left them; the two calls created `two`
\* notifications when always holds or the teacher has a profile, else none;
\* a regrade leaves its own grade in the store.
RetryOverwrites(always) ==
  \A c \in Slots :
    LET call == calls[c]
        stored == Stored(call.req.id, call.req.submissionId)
    IN /\ Retry(c) =>
            /\ call.resp.status = 200
            /\ stored.grade = prev.stored.grade
            /\ stored.feedback = prev.stored.feedback
            /\ stored.status = prev.stored.status
            /\ stored.grade = call.req.body.grade
            /\ stored.feedback = call.req.body.feedback
            /\ stored.status = "graded"
            /\ prev.notified + call.notified =
                 (IF always \/ HasProfile(call.req.token) THEN 2 ELSE 0)
       /\ Regrade(c) =>
            /\ stored.grade = call.req.body.grade
            /\ stored.grade # prev.stored.grade

\* C7 as stated: the same valid request issued twice in sequence by the
\* owning teacher is answered 200 both times, leaves the stored grade,
\* feedback and status as after the first call, and two notifications have
\* been created; a later call with another grade overwrites the grade.
C7_Original == RetryOverwrites(TRUE)

\* C7, amended: as stated, but the two calls have created two notifications
\* when the teacher has a Teacher document, and none when there is none.
C7_RetryOverwrites == RetryOverwrites(FALSE)

\* The second of two identical calls has been answered 200 and the second
\* notification is in the store.
C7_Witness ==
  \E c \in Slots :
    /\ Retry(c)
    /\ calls[c].resp.status = 200
    /\ calls[c].modified = {"gradedAt"}
    /\ Len(notifications) = 2

\* C2: when the checks pass and the save succeeds, a Notification.create
\* that rejects leaves the response at 200 with success: true.
C2_NotificationFailureNotFatal ==
  \A c \in Slots :
    (Done(c) /\ calls[c].saved /\ calls[c].threw = "Notification.create") =>
      calls[c].resp.status = 200 /\ calls[c].resp.success

\* The stored submissions: <<assignment id, position>>.
StoredSubmissions ==
  {p \in (DOMAIN assignments) \X {1, 2} :
     p[2] <= Len(assignments[p[1]].submissions)}

Unset(submission) ==
  /\ submission.grade = Undefined
  /\ submission.feedback = Undefined
  /\ submission.status # "graded"
  /\ submission.gradedAt = Undefined

\* Graded, with a grade and a feedback that request bodies carried.
GradedFrom(submission, bodies) ==
  /\ submission.status = "graded"
  /\ submission.gradedAt # Undefined
  /\ \E b \in bodies : submission.grade = b.grade
  /\ \E b \in bodies : submission.feedback = b.feedback

SavedFor(id, submissionId) ==
  {b \in saves : b.id = id /\ b.submissionId = submissionId}

AnsweredFor(id, submissionId) ==
  \E i \in 1..Len(okCalls) :
    okCalls[i].id = id /\ okCalls[i].submissionId = submissionId

\* C4 as stated: a stored submission is unset as long as no grading call
\* for it was answered 200, and graded from request bodies once one was.
C4_Original ==
  \A p \in StoredSubmissions :
    LET submission == assignments[p[1]].submissions[p[2]]
    IN IF AnsweredFor(p[1], submission._id)
       THEN GradedFrom(submission, SavedFor(p[1], submission._id))
       ELSE Unset(submission)

\* C4, amended: a stored submission's grade, feedback, graded status and
\* gradedAt are unset as long as no grading call's save() for it has
\* succeeded; once one has, its status is "graded", its gradedAt is set and
\* its grade and its feedback are each those of the body of such a call.
C4_UnsetUntilSaved ==
  \A p \in StoredSubmissions :
    LET submission == assignments[p[1]].submissions[p[2]]
    IN IF SavedFor(p[1], submission._id) # {}
       THEN GradedFrom(submission, SavedFor(p[1], submission._id))
       ELSE Unset(submission)

\* A submission is stored graded although the only call for it ended 500;
\* another submission of the assignment is still unset.
C4_Witness ==
  /\ okCalls = <<>>
  /\ assignments["a1"].submissions[1].status = "graded"
  /\ Unset(assignments["a1"].submissions[2])
  /\ \E c \in Slots : Done(c) /\ calls[c].saved /\ calls[c].resp.status = 500

\* The notification a 200 call is to have created.
NotificationMatches(n, k) ==
  /\ n.type = "assignment_graded"
  /\ n.recipientId = Stored(k.id, k.submissionId).studentId
  /\ n.senderId = k.teacherId
  /\ n.relatedDocId = k.id

HasTeacherDoc(k) == k.teacherId \in DOMAIN TeacherDocs
AnyCall(k) == TRUE

\* The notifications are, in order, those of the 200 calls in expected.
OnePerCall(expected) ==
  /\ Len(notifications) = Len(expected)
  /\ \A i \in 1..Len(expected) : NotificationMatches(notifications[i], expected[i])

\* C5 as stated: every call answered 200 created exactly one notification,
\* of type assignment_graded, to the submission's student, from the calling
\* teacher, about the assignment; there are as many notifications as 200s.
C5_Original ==
  /\ OnePerCall(SelectSeq(okCalls, AnyCall))
  /\ \A c \in Slots :
       (Done(c) /\ calls[c].resp.status = 200) => calls[c].notified = 1

\* C5, amended: every call answered 200 whose teacher has a Teacher document
\* created exactly one such notification and every other call none; there
\* are as many notifications as 200 responses to teachers with a document.
C5_OnePerNotifiedCall ==
  /\ OnePerCall(SelectSeq(okCalls, HasTeacherDoc))
  /\ \A c \in Slots :
       /\ (Done(c) /\ calls[c].resp.status = 200) =>
            calls[c].notified = (IF HasProfile(calls[c].req.token) THEN 1 ELSE 0)
       /\ (Done(c) /\ calls[c].resp.status # 200) => calls[c].notified = 0

\* Two calls were answered 200, one of a teacher with a document and one of
\* a teacher without: one notification.
C5_Witness ==
  /\ Len(okCalls) = 2
  /\ Len(notifications) = 1
  /\ \E i \in 1..2 : ~HasTeacherDoc(okCalls[i])

StorageOperations ==
  {"connectToDatabase", "Assignment.findById", "assignment.save", "Teacher.findById"}

\* C6: a call whose request passes the seven checks and one of whose
\* storage operations rejects has ended, with the one response
\* 500 "Failed to grade submission".
C6_StorageFailureIs500 ==
  \A c \in Slots :
    (calls[c].threw \in StorageOperations /\ FirstFailing(calls[c].req, TRUE) = 0) =>
      Done(c) /\ calls[c].resp = FailedToGrade

\* The teacher lookup rejected after the save went through.
C6_Witness ==
  \E c \in Slots :
    /\ Done(c)
    /\ calls[c].saved
    /\ calls[c].threw = "Teacher.findById"
    /\ FirstFailing(calls[c].req, TRUE) = 0
    /\ calls[c].resp = FailedToGrade

\* Call c's save() succeeds in this step.
Saves(c) == calls[c].pc = "save" /\ calls'[c].pc = "teacher"

\* C8: after each save() the stored submission carries the grade and the
\* feedback of the call that saved, whatever calls ran between its load and
\* its save: last write wins, never a mix of two calls' values.
C8_LastWriteWins ==
  [][\A c \in Slots :
       Saves(c) =>
         LET stored == StoredIn(assignments', calls[c].req.id, calls[c].req.submissionId)
         IN /\ stored.grade = calls[c].req.body.grade
            /\ stored.feedback = calls[c].req.body.feedback]_vars

\* C9: a step that changes a stored assignment or creates a notification is
\* a step of a call whose token verifies with role teacher and whose subject
\* is the teacherId of the one assignment changed or notified about.
C9_OnlyOwnerWrites ==
  [][(assignments' # assignments \/ notifications' # notifications) =>
       \E c \in Slots :
         LET req == calls[c].req
         IN /\ calls'[c] # calls[c]
            /\ IsTeacher(req.token)
            /\ InStore(req.id)
            /\ Owns(req.token, req.id)
            /\ \A a \in DOMAIN assignments :
                 assignments'[a] # assignments[a] => a = req.id
            /\ notifications' # notifications =>
                 /\ Len(notifications') = Len(notifications) + 1
                 /\ SubSeq(notifications', 1, Len(notifications)) = notifications
                 /\ notifications'[Len(notifications')].relatedDocId = req.id
                 /\ notifications'[Len(notifications')].senderId = Subject(req.token)]_vars

\* A teacher who does not own the assignment is refused while the owner's
\* grade and notification are in the store.
C9_Witness ==
  /\ Len(notifications) > 0
  /\ \E c \in Slots :
       /\ Done(c)
       /\ calls[c].resp = NotAuthorized
       /\ IsTeacher(calls[c].req.token)
       /\ \E i \in 1..Len(assignments[calls[c].req.id].submissions) :
            assignments[calls[c].req.id].submissions[i].status = "graded"

\* C10: a step changes a stored assignment only as the save() of a call
\* for that assignment, and then only the grade, feedback, status and
\* gradedAt of the submission the call addresses: teacherId, title and the
\* other submissions stay as stored, also when they were graded after the
\* call loaded the assignment.
C10_SaveTouchesOnlyItsSubmission ==
  [][/\ DOMAIN assignments' = DOMAIN assignments
     /\ \A a \in DOMAIN assignments :
          assignments'[a] # assignments[a] =>
            \E c \in Slots :
              /\ Saves(c)
              /\ calls[c].req.id = a
              /\ assignments'[a]._id = assignments[a]._id
              /\ assignments'[a].teacherId = assignments[a].teacherId
              /\ assignments'[a].title = assignments[a].title
              /\ Len(assignments'[a].submissions) = Len(assignments[a].submissions)
              /\ \A i \in 1..Len(assignments[a].submissions) :
                   LET old == assignments[a].submissions[i]
                       new == assignments'[a].submissions[i]
                   IN /\ new._id = old._id
                      /\ new.studentId = old.studentId
                      /\ new # old => old._id = calls[c].req.submissionId]_vars

\* A call has saved its submission from a load that predates the grading
\* of the other submission, and both grades are stored.
C10_Witness ==
  \E c \in Slots :
    /\ calls[c].pc = "teacher"
    /\ calls[c].req.id = "a1"
    /\ \E j \in {1, 2} :
         /\ j # calls[c].idx
         /\ calls[c].assignment.submissions[j].status = "submitted"
         /\ assignments["a1"].submissions[j].status = "graded"
         /\ assignments["a1"].submissions[calls[c].idx].status = "graded"

====
